---------------------------- MODULE Spec2Model ----------------------------
(***************************************************************************)
(* Model of cumulusci/cli/plan.py: the `cci plan list` and `cci plan info` *)
(* subcommands.  One behaviour is one invocation of one subcommand.        *)
(*                                                                         *)
(* Python values are modelled as follows.                                  *)
(*   - a str that the code only passes around is a TLA+ string;            *)
(*   - a str that the code compares (plan names, sort keys) is a sequence  *)
(*     of character codes, compared the way Python compares str;           *)
(*   - a dict read with .get()/[] is a function whose DOMAIN is its keys;  *)
(*   - a dict whose insertion order matters is a sequence of <<key, value>>*)
(*   - an Optional mapping is a record [isNone, map].                      *)
(***************************************************************************)
EXTENDS Integers, Sequences, FiniteSets, TLC

VARIABLES
    project_plans,   \* runtime.project_config.plans
    args,            \* the subcommand and its command-line arguments
    pc,              \* position of the invocation
    raw_data,        \* the local raw_data of the running command
    steps,           \* what get_frozen_steps returned
    resolver_calls,  \* number of calls get_frozen_steps has received
    output,          \* everything printed so far, in order
    error            \* the exception the invocation ended with

vars == <<project_plans, args, pc, raw_data, steps, resolver_calls, output, error>>

---------------------------------------------------------------------------
(* Bounds of the model *)

MaxNameLen == 2

MaxPlans == 2

MaxStepChecks == 2

MaxSteps == 2

---------------------------------------------------------------------------
(* Python helpers *)

\* dict.get(key, default)
Get(d, key, default) == IF key \in DOMAIN d THEN d[key] ELSE default

Restrict(d, keys) == [k \in keys |-> d[k]]

\* All sequences over S of length at most n
SeqsUpTo(S, n) == UNION {[1..k -> S] : k \in 0..n}

\* Python's str < str: lexicographic on code points, a proper prefix is smaller
StrLess(a, b) ==
    \E i \in 1..Len(b) :
        /\ i <= Len(a) + 1
        /\ \A j \in 1..(i - 1) : a[j] = b[j]
        /\ (i = Len(a) + 1 \/ a[i] < b[i])

\* str(n) for a natural number n, as character codes ('0' is 48)
RECURSIVE IntToStr(_)
IntToStr(n) ==
    IF n < 10 THEN <<48 + n>> ELSE IntToStr(n \div 10) \o <<48 + (n % 10)>>

\* list.index(x) counted from 0, for x in the list
IndexOf(list, x) == (CHOOSE i \in 1..Len(list) :
                        list[i] = x /\ \A j \in 1..(i - 1) : list[j] # x) - 1

InList(list, x) == \E i \in 1..Len(list) : list[i] = x

---------------------------------------------------------------------------
(* Input domains *)

\* the characters plan names are made of here: '1' and 'a'
NameChars == {49, 97}

Names == UNION {[1..k -> NameChars] : k \in 1..MaxNameLen}

\* Plan.schema()["properties"]["tier"]["enum"]
Tiers == <<"primary", "secondary", "additional">>

\* tier values a project file may carry; "bonus" is not in the enumeration
TierValues == {"primary", "secondary", "additional", "bonus"}

NoneValue == [isNone |-> TRUE, map |-> <<>>]

Some(m) == [isNone |-> FALSE, map |-> m]

\* plan configurations for `plan list`: tier, title and slug are each optional
ListConfigs ==
    {[tier |-> t, title |-> "Install", slug |-> "install"] : t \in TierValues}
    \cup {[title |-> "Install", slug |-> "install"], [tier |-> "secondary"]}

ListPlans ==
    {NoneValue} \cup
    {Some(m) : m \in UNION {[S -> ListConfigs] :
                    S \in {T \in SUBSET Names : Cardinality(T) <= MaxPlans}}}

---------------------------------------------------------------------------
(* plan list *)

\* plans = runtime.project_config.plans, without the `or {}`
PlansNoDefault(p) == p

\* plans = runtime.project_config.plans or {}: None and the empty mapping
\* are both falsy and give a fresh empty dict
PlansOrEmpty(p) == IF p.isNone \/ p.map = <<>> THEN Some(<<>>) ELSE p

TierIndexUnknown == 99

\* _sort_func with an unknown tier given index 0
SortFuncUnknownFirst(name, config) ==
    LET tier == Get(config, "tier", "primary")
        tier_index == IF InList(Tiers, tier) THEN IndexOf(Tiers, tier) ELSE 0
    IN  IntToStr(tier_index) \o <<32>> \o name

\* _sort_func((name, config)): the key f"{tier_index} {name}" (' ' is 32)
SortFunc(name, config) ==
    LET tier == Get(config, "tier", "primary")
        tier_index == IF InList(Tiers, tier) THEN IndexOf(Tiers, tier)
                      ELSE TierIndexUnknown
    IN  IntToStr(tier_index) \o <<32>> \o name

\* sorted(plans.items(), key=_sort_func): the (name, config) pairs by
\* ascending key.  Plan names are unique, so no two keys are equal and the
\* result does not depend on the order the mapping is iterated in.
RECURSIVE SortedItems(_, _)
SortedItems(plans, todo) ==
    IF todo = {} THEN <<>>
    ELSE LET first == CHOOSE n \in todo : \A m \in todo \ {n} :
                          StrLess(SortFunc(n, plans[n]), SortFunc(m, plans[m]))
         IN  <<<<first, plans[first]>>>> \o SortedItems(plans, todo \ {first})

columns == <<"name", "title", "slug", "tier">>

\* dict(name=plan_name, **{key: plan_config.get(key, "") for key in columns[1:]})
\* as the insertion-ordered sequence of its items
ListRow(plan_name, plan_config) ==
    <<<<columns[1], plan_name>>>> \o
    [i \in 1..(Len(columns) - 1) |->
        <<columns[i + 1], Get(plan_config, columns[i + 1], "")>>]

ListRawData(plans) ==
    LET items == SortedItems(plans, DOMAIN plans)
    IN  [i \in 1..Len(items) |-> ListRow(items[i][1], items[i][2])]

\* str.title() on the column names
Title(s) == CASE s = "name"  -> "Name"
              [] s = "title" -> "Title"
              [] s = "slug"  -> "Slug"
              [] s = "tier"  -> "Tier"

\* list(row.values())
Values(row) == [i \in 1..Len(row) |-> row[i][2]]

\* json.dumps of a list of dicts: an array of objects whose members keep
\* the dict's insertion order
JsonDumps(rows) ==
    [type |-> "array",
     items |-> [i \in 1..Len(rows) |-> [type |-> "object", members |-> rows[i]]]]

Echo(text) == [kind |-> "echo", title |-> "", data |-> text]

\* console.print(CliTable(title=..., data=...))
Table(title, data) == [kind |-> "table", title |-> title, data |-> data]

NoError == [type |-> "none", msg |-> <<>>]

ListHint == <<"Use ", "cci plan info <plan_name>", " to get more information about a task.">>

\* data = [[name.title() for name in columns]]
\* data.extend([list(row.values()) for row in raw_data])
ListData(rows) ==
    LET header == [i \in 1..Len(columns) |-> Title(columns[i])]
    IN  <<header>> \o [i \in 1..Len(rows) |-> Values(rows[i])]

\* plan_list with --json (lines 32-51)
ListJson ==
    /\ pc = "start" /\ args.cmd = "list" /\ args.print_json
    /\ LET plans == PlansOrEmpty(project_plans)
       IN  IF plans.isNone
           THEN /\ error' = [type |-> "AttributeError", msg |-> <<"items">>]
                /\ pc' = "failed"
                /\ UNCHANGED <<raw_data, output>>
           ELSE /\ raw_data' = ListRawData(plans.map)
                /\ output' = output \o <<Echo(JsonDumps(raw_data'))>>
                /\ pc' = "done"
                /\ UNCHANGED error
    /\ UNCHANGED <<project_plans, args, steps, resolver_calls>>

\* plan_list without --json (lines 32-63)
ListTable ==
    /\ pc = "start" /\ args.cmd = "list" /\ ~args.print_json
    /\ LET plans == PlansOrEmpty(project_plans)
       IN  IF plans.isNone
           THEN /\ error' = [type |-> "AttributeError", msg |-> <<"items">>]
                /\ pc' = "failed"
                /\ UNCHANGED <<raw_data, output>>
           ELSE /\ raw_data' = ListRawData(plans.map)
                /\ output' = output \o <<Table("", ListData(raw_data')), Echo(ListHint)>>
                /\ pc' = "done"
                /\ UNCHANGED error
    /\ UNCHANGED <<project_plans, args, steps, resolver_calls>>

---------------------------------------------------------------------------
(* plan info *)

Check1 == [action |-> "error",
           message |-> "My Domain must be enabled in your org before installation.",
           when |-> "'.my.' not in org_config.instance_url"]

\* a check without a "when" key
Check2 == [action |-> "warn", message |-> "Chatter should be enabled."]

Checks == {Check1, Check2}

BaseConfig ==
    [title |-> "Express Setup Configuration Plan", slug |-> "config",
     tier |-> "secondary", is_listed |-> TRUE,
     preflight_message |-> "This will install metadata configurations into your org.",
     post_install_message |-> "Thanks for installing.",
     error_message |-> "If you experience an issue, please post in the Hub.",
     checks |-> <<Check1, Check2>>]

\* plan configurations for `plan info`: the full configuration, the same
\* with other checks or unlisted, and the same with any one key left out
InfoConfigs ==
    {BaseConfig, [BaseConfig EXCEPT !.is_listed = FALSE]}
    \cup {[BaseConfig EXCEPT !.checks = c] : c \in {<<>>, <<Check1>>, <<Check2, Check1>>}}
    \cup {Restrict(BaseConfig, DOMAIN BaseConfig \ {k}) : k \in DOMAIN BaseConfig}

InfoNames == {n \in Names : Len(n) = 1}

InfoPlans ==
    {NoneValue, Some(<<>>)}
    \cup {Some([m \in {n} |-> c]) : n \in InfoNames, c \in InfoConfigs}
    \cup {Some([m \in InfoNames |->
                 IF m = n THEN BaseConfig
                 ELSE Restrict(BaseConfig, DOMAIN BaseConfig \ {"tier"})]) : n \in InfoNames}

\* the steps get_frozen_steps may return
StepHeads ==
    {[step_num |-> "1", name |-> "install_managed", is_required |-> TRUE],
     [step_num |-> "2", name |-> "config_org", is_required |-> FALSE]}

FrozenSteps ==
    {[step_num |-> h.step_num, name |-> h.name, is_required |-> h.is_required,
      task_config |-> [checks |-> cs]] :
        h \in StepHeads, cs \in SeqsUpTo(Checks, MaxStepChecks)}

ResolverResults == SeqsUpTo(FrozenSteps, MaxSteps)

\* [check.get("action", ""), check.get("message", ""), check.get("when", "")]
CheckRow(check) ==
    <<Get(check, "action", ""), Get(check, "message", ""), Get(check, "when", "")>>

CheckRows(checks) == [i \in 1..Len(checks) |-> CheckRow(checks[i])]

\* the keys plan_info reads with plan_config[key], in the order it reads them
RequiredKeys == <<"title", "slug", "tier", "checks">>

HasRequiredKeys(plan_config) ==
    \A i \in 1..Len(RequiredKeys) : RequiredKeys[i] \in DOMAIN plan_config

FirstMissingKey(plan_config) ==
    RequiredKeys[CHOOSE i \in 1..Len(RequiredKeys) :
                    /\ RequiredKeys[i] \notin DOMAIN plan_config
                    /\ \A j \in 1..(i - 1) : RequiredKeys[j] \in DOMAIN plan_config]

\* not plan_config.get("is_listed", "False"): the default is the non-empty
\* string "False", which is truthy
Hidden(plan_config) ==
    IF "is_listed" \in DOMAIN plan_config THEN ~plan_config["is_listed"] ELSE FALSE

\* raw_data = {...} (lines 103-117)
InfoRawData(plan_name, plan_config) ==
    [title |-> plan_config["title"],
     yaml_key |-> plan_name,
     slug |-> plan_config["slug"],
     tier |-> plan_config["tier"],
     hidden |-> Hidden(plan_config),
     preflight_message |-> Get(plan_config, "preflight_message", ""),
     post_install_message |-> Get(plan_config, "post_install_message", ""),
     error_message |-> Get(plan_config, "error_message", ""),
     checks |-> CheckRows(plan_config["checks"]),
     steps |-> <<>>,
     steps_preflight_checks |-> <<>>]

\* messages_table (lines 119-128)
MessagesTable(rd) ==
    Table("Messages",
          <<<<"Type", "Message">>,
            <<"Title", rd.title>>,
            <<"Preflight", rd.preflight_message>>,
            <<"Post-install", rd.post_install_message>>,
            <<"Error", rd.error_message>>>>)

\* config_table (lines 134-143)
ConfigTable(rd) ==
    Table("Config",
          <<<<"Key", "Value">>,
            <<"YAML Key", rd.yaml_key>>,
            <<"Slug", rd.slug>>,
            <<"Tier", rd.tier>>,
            <<"Hidden?", rd.hidden>>>>)

\* plan_preflight_checks_table (lines 145-151)
PlanPreflightChecksTable(rd) ==
    Table("Plan Preflights", <<<<"Action", "Message", "When">>>> \o rd.checks)

\* step_preflight_checks_table (lines 163-169)
StepPreflightChecksTable(rd) ==
    Table("Step Preflights",
          <<<<"Action", "Message", "When">>>> \o rd.steps_preflight_checks)

\* steps_table (lines 171-179)
StepsTable(rd) ==
    Table("Steps", <<<<"Step", "Name", "Required">>>> \o rd.steps)

\* [[step["step_num"], step["name"], step["is_required"]] for step in steps]
StepRows(frozen) ==
    [i \in 1..Len(frozen) |->
        <<frozen[i].step_num, frozen[i].name, frozen[i].is_required>>]

\* each step's checks taken last to first
RECURSIVE StepsPreflightChecksReversed(_)
StepsPreflightChecksReversed(frozen) ==
    IF frozen = <<>> THEN <<>>
    ELSE LET rows == CheckRows(Head(frozen).task_config.checks)
         IN  [i \in 1..Len(rows) |-> rows[Len(rows) + 1 - i]]
             \o StepsPreflightChecksReversed(Tail(frozen))

\* [[...] for step in steps for check in step["task_config"]["checks"]]
RECURSIVE StepsPreflightChecks(_)
StepsPreflightChecks(frozen) ==
    IF frozen = <<>> THEN <<>>
    ELSE CheckRows(Head(frozen).task_config.checks)
         \o StepsPreflightChecks(Tail(frozen))

\* the messages table printed before the config table
InfoTablesMessagesFirst(rd) ==
    <<MessagesTable(rd), ConfigTable(rd), PlanPreflightChecksTable(rd),
      StepPreflightChecksTable(rd), StepsTable(rd)>>

\* the five console.print calls (lines 181-185)
InfoTables(rd) ==
    <<ConfigTable(rd), MessagesTable(rd), PlanPreflightChecksTable(rd),
      StepPreflightChecksTable(rd), StepsTable(rd)>>

\* click.UsageError(f"Unknown plan '{plan_name}'. To view available plans
\* run: `cci plan list`"): the parts of the message, quote marks left out
UsageError(plan_name) ==
    [type |-> "UsageError",
     msg |-> <<"Unknown plan ", plan_name,
               ". To view available plans run: ", "cci plan list">>]

InfoIdle == pc = "start" /\ args.cmd = "info"

\* plans.get(plan_name, {}) in place of the membership test
InfoUnknownPlanAsKeyError ==
    /\ InfoIdle
    /\ LET plans == PlansOrEmpty(project_plans)
       IN  /\ ~plans.isNone
           /\ args.plan_name \notin DOMAIN plans.map
    /\ error' = [type |-> "KeyError", msg |-> <<RequiredKeys[1]>>]
    /\ pc' = "failed"
    /\ UNCHANGED <<project_plans, args, raw_data, steps, resolver_calls, output>>

\* plan_name not in plans: raise click.UsageError (lines 92-97)
InfoUnknownPlan ==
    /\ InfoIdle
    /\ LET plans == PlansOrEmpty(project_plans)
       IN  /\ ~plans.isNone
           /\ args.plan_name \notin DOMAIN plans.map
    /\ error' = UsageError(args.plan_name)
    /\ pc' = "failed"
    /\ UNCHANGED <<project_plans, args, raw_data, steps, resolver_calls, output>>

\* plan_config[key] on a configuration without that key (lines 99-117)
InfoKeyError ==
    /\ InfoIdle
    /\ LET plans == PlansOrEmpty(project_plans)
       IN  /\ ~plans.isNone
           /\ args.plan_name \in DOMAIN plans.map
           /\ ~HasRequiredKeys(plans.map[args.plan_name])
           /\ error' = [type |-> "KeyError",
                        msg |-> <<FirstMissingKey(plans.map[args.plan_name])>>]
    /\ pc' = "failed"
    /\ UNCHANGED <<project_plans, args, raw_data, steps, resolver_calls, output>>

\* --messages tested only after get_frozen_steps has been called
InfoMessagesOnlyAfterResolver ==
    /\ InfoIdle
    /\ args.messages_only
    /\ LET plans == PlansOrEmpty(project_plans)
       IN  /\ ~plans.isNone
           /\ args.plan_name \in DOMAIN plans.map
           /\ HasRequiredKeys(plans.map[args.plan_name])
           /\ raw_data' = InfoRawData(args.plan_name, plans.map[args.plan_name])
    /\ resolver_calls' = resolver_calls + 1
    /\ output' = output \o <<MessagesTable(raw_data')>>
    /\ pc' = "done"
    /\ UNCHANGED <<project_plans, args, steps, error>>

\* --messages printing the config table as well
InfoMessagesOnlyWithConfig ==
    /\ InfoIdle
    /\ args.messages_only
    /\ LET plans == PlansOrEmpty(project_plans)
       IN  /\ ~plans.isNone
           /\ args.plan_name \in DOMAIN plans.map
           /\ HasRequiredKeys(plans.map[args.plan_name])
           /\ raw_data' = InfoRawData(args.plan_name, plans.map[args.plan_name])
    /\ output' = output \o <<ConfigTable(raw_data'), MessagesTable(raw_data')>>
    /\ pc' = "done"
    /\ UNCHANGED <<project_plans, args, steps, resolver_calls, error>>

\* --messages: print the messages table and return (lines 92-132)
InfoMessagesOnly ==
    /\ InfoIdle
    /\ args.messages_only
    /\ LET plans == PlansOrEmpty(project_plans)
       IN  /\ ~plans.isNone
           /\ args.plan_name \in DOMAIN plans.map
           /\ HasRequiredKeys(plans.map[args.plan_name])
           /\ raw_data' = InfoRawData(args.plan_name, plans.map[args.plan_name])
    /\ output' = output \o <<MessagesTable(raw_data')>>
    /\ pc' = "done"
    /\ UNCHANGED <<project_plans, args, steps, resolver_calls, error>>

\* the tables printed as they are built, before get_frozen_steps is called
InfoCallResolverPrintsFirst ==
    /\ InfoIdle
    /\ ~args.messages_only
    /\ LET plans == PlansOrEmpty(project_plans)
       IN  /\ ~plans.isNone
           /\ args.plan_name \in DOMAIN plans.map
           /\ HasRequiredKeys(plans.map[args.plan_name])
           /\ raw_data' = InfoRawData(args.plan_name, plans.map[args.plan_name])
    /\ output' = output \o <<ConfigTable(raw_data'), MessagesTable(raw_data')>>
    /\ resolver_calls' = resolver_calls + 1
    /\ pc' = "resolving"
    /\ UNCHANGED <<project_plans, args, steps, error>>

\* without --messages: build the tables and call get_frozen_steps
\* (lines 92-153)
InfoCallResolver ==
    /\ InfoIdle
    /\ ~args.messages_only
    /\ LET plans == PlansOrEmpty(project_plans)
       IN  /\ ~plans.isNone
           /\ args.plan_name \in DOMAIN plans.map
           /\ HasRequiredKeys(plans.map[args.plan_name])
           /\ raw_data' = InfoRawData(args.plan_name, plans.map[args.plan_name])
    /\ resolver_calls' = resolver_calls + 1
    /\ pc' = "resolving"
    /\ UNCHANGED <<project_plans, args, steps, output, error>>

\* get_frozen_steps called a second time for the step preflights
ResolverReturnsCallsTwice ==
    /\ pc = "resolving"
    /\ \E frozen \in ResolverResults :
        /\ steps' = frozen
        /\ raw_data' = [raw_data EXCEPT
                           !.steps = StepRows(frozen),
                           !.steps_preflight_checks = StepsPreflightChecks(frozen)]
    /\ resolver_calls' = resolver_calls + 1
    /\ output' = output \o InfoTables(raw_data')
    /\ pc' = "done"
    /\ UNCHANGED <<project_plans, args, error>>

\* get_frozen_steps returns: fill raw_data and print (lines 153-185)
ResolverReturns ==
    /\ pc = "resolving"
    /\ \E frozen \in ResolverResults :
        /\ steps' = frozen
        /\ raw_data' = [raw_data EXCEPT
                           !.steps = StepRows(frozen),
                           !.steps_preflight_checks = StepsPreflightChecks(frozen)]
    /\ output' = output \o InfoTables(raw_data')
    /\ pc' = "done"
    /\ UNCHANGED <<project_plans, args, resolver_calls, error>>

\* get_frozen_steps raises: nothing catches it (line 153)
ResolverRaises ==
    /\ pc = "resolving"
    /\ error' = [type |-> "ResolverError", msg |-> <<"get_frozen_steps">>]
    /\ pc' = "failed"
    /\ UNCHANGED <<project_plans, args, raw_data, steps, resolver_calls, output>>

---------------------------------------------------------------------------
(* One invocation of either subcommand *)

ListArgs == [cmd : {"list"}, print_json : BOOLEAN, plan_name : {<<>>},
             messages_only : {FALSE}]

InfoArgs == [cmd : {"info"}, print_json : {FALSE}, plan_name : InfoNames,
             messages_only : BOOLEAN]

Init ==
    /\ \/ project_plans \in ListPlans /\ args \in ListArgs
       \/ project_plans \in InfoPlans /\ args \in InfoArgs
    /\ pc = "start"
    /\ raw_data = <<>>
    /\ steps = <<>>
    /\ resolver_calls = 0
    /\ output = <<>>
    /\ error = NoError

Next ==
    \/ ListJson
    \/ ListTable
    \/ InfoUnknownPlan
    \/ InfoKeyError
    \/ InfoMessagesOnly
    \/ InfoCallResolver
    \/ ResolverReturns
    \/ ResolverRaises

Spec == Init /\ [][Next]_vars

---------------------------------------------------------------------------
(* Properties *)

\* the plans mapping as the project gives it, absent read as empty
GivenPlans == IF project_plans.isNone THEN <<>> ELSE project_plans.map

Finished == pc \in {"done", "failed"}

PrintedTitles == [i \in 1..Len(output) |-> output[i].title]

\* rank of a plan's tier: its index in the enumeration, beyond all of them
\* when it is not in the enumeration; a plan without a tier key has the
\* schema default "primary"
TierRank(config) ==
    LET tier == Get(config, "tier", "primary")
    IN  IF \E i \in 1..Len(Tiers) : Tiers[i] = tier
        THEN (CHOOSE i \in 1..Len(Tiers) : Tiers[i] = tier) - 1
        ELSE Len(Tiers)

\* the plan names of the emitted rows, in emitted order
ListedNames ==
    IF args.print_json
    THEN [i \in 1..Len(output[1].data.items) |-> output[1].data.items[i].members[1][2]]
    ELSE [i \in 1..(Len(output[1].data) - 1) |-> output[1].data[i + 1][1]]

\* C1: `plan list` emits one row per plan, ordered by tier rank ascending
\* and, among plans of equal rank, by plan name ascending; every plan whose
\* tier is not in the enumeration comes after every plan whose tier is.
C1_ListOrder ==
    (args.cmd = "list" /\ pc = "done") =>
        LET names == ListedNames
            rank(i) == TierRank(GivenPlans[names[i]])
        IN  /\ Len(names) = Cardinality(DOMAIN GivenPlans)
            /\ \A i \in 1..Len(names) : names[i] \in DOMAIN GivenPlans
            /\ \A i, j \in 1..Len(names) :
                  i < j => \/ rank(i) < rank(j)
                           \/ rank(i) = rank(j) /\ StrLess(names[i], names[j])
            /\ \A i, j \in 1..Len(names) :
                  (rank(i) = Len(Tiers) /\ rank(j) < Len(Tiers)) => j < i

\* a listing where a plan with a known tier precedes a plan with an unknown
\* tier although its name is the larger one
C1_Witness ==
    /\ args.cmd = "list" /\ pc = "done" /\ ~args.print_json
    /\ Len(ListedNames) = 2
    /\ TierRank(GivenPlans[ListedNames[1]]) < Len(Tiers)
    /\ "tier" \in DOMAIN GivenPlans[ListedNames[2]]
    /\ TierRank(GivenPlans[ListedNames[2]]) = Len(Tiers)
    /\ StrLess(ListedNames[2], ListedNames[1])

\* C8: `plan list` on an empty or absent plans mapping raises nothing and
\* emits an empty array with --json, and a table without plan rows otherwise.
C8_EmptyListing ==
    (args.cmd = "list" /\ Finished /\ DOMAIN GivenPlans = {}) =>
        /\ pc = "done" /\ error = NoError
        /\ args.print_json =>
              /\ Len(output) = 1 /\ output[1].kind = "echo"
              /\ output[1].data.type = "array" /\ Len(output[1].data.items) = 0
        /\ ~args.print_json =>
              /\ Len(output) = 2 /\ output[1].kind = "table"
              /\ output[1].data = <<<<"Name", "Title", "Slug", "Tier">>>>

C8_Witness ==
    /\ args.cmd = "list" /\ pc = "done" /\ project_plans.isNone
    /\ ~args.print_json /\ Len(output[1].data) = 1

\* C9: with --json, `plan list` emits one dictionary per plan, each with the
\* keys name, group, title, slug, tier.
C9_JsonKeys ==
    (args.cmd = "list" /\ pc = "done" /\ args.print_json) =>
        LET items == output[1].data.items
        IN  /\ Len(items) = Cardinality(DOMAIN GivenPlans)
            /\ \A i \in 1..Len(items) :
                  {items[i].members[k][1] : k \in 1..Len(items[i].members)}
                      = {"name", "group", "title", "slug", "tier"}

UnknownName == args.plan_name \notin DOMAIN GivenPlans

\* C2: `plan info` on a name that is not a key of the plans mapping ends in
\* the usage error naming the plan and `cci plan list`, with the resolver
\* never called and nothing printed.
C2_UnknownPlanUsageError ==
    (args.cmd = "info" /\ UnknownName) =>
        /\ pc \in {"start", "failed"}
        /\ resolver_calls = 0
        /\ output = <<>>
        /\ pc = "failed" =>
              /\ error.type = "UsageError"
              /\ error.msg[2] = args.plan_name
              /\ error.msg[4] = "cci plan list"

C2_Witness ==
    /\ args.cmd = "info" /\ pc = "failed" /\ error.type = "UsageError"
    /\ DOMAIN GivenPlans # {} /\ UnknownName /\ ~args.messages_only

\* C3: with --messages, `plan info` never calls the step resolver.
C3_MessagesNoResolver ==
    (args.cmd = "info" /\ args.messages_only) =>
        resolver_calls = 0 /\ pc # "resolving"

C3_Witness ==
    /\ args.cmd = "info" /\ args.messages_only /\ pc = "done"
    /\ PrintedTitles = <<"Messages">>

\* C4 as claimed: every invocation of `plan info` without --messages calls
\* the step resolver exactly once.
C4_Original ==
    (args.cmd = "info" /\ ~args.messages_only /\ Finished) => resolver_calls = 1

\* C4 as amended: without --messages, on a known plan whose configuration
\* has the keys title, slug, tier and checks, the resolver is called exactly
\* once; on an unknown plan or without one of these keys it is not called;
\* no invocation calls it more than once.
C4_ResolverOnce ==
    /\ resolver_calls <= 1
    /\ (args.cmd = "info" /\ ~args.messages_only /\ Finished) =>
          IF ~UnknownName /\ HasRequiredKeys(GivenPlans[args.plan_name])
          THEN resolver_calls = 1
          ELSE resolver_calls = 0

C4_Witness ==
    /\ args.cmd = "info" /\ ~args.messages_only /\ pc = "done"
    /\ resolver_calls = 1 /\ Len(steps) = 2

\* C5: `plan info` without --messages that completes has printed exactly
\* the tables Config, Messages, Plan Preflights, Step Preflights, Steps, in
\* this order, once each.
C5_TableOrder ==
    (args.cmd = "info" /\ ~args.messages_only /\ pc = "done") =>
        /\ PrintedTitles =
              <<"Config", "Messages", "Plan Preflights", "Step Preflights", "Steps">>
        /\ \A i \in 1..Len(output) : output[i].kind = "table"

C5_Witness ==
    /\ args.cmd = "info" /\ ~args.messages_only /\ pc = "done"
    /\ Len(output) = 5 /\ Len(steps) > 0 /\ ~UnknownName

\* C6 as claimed: `plan info --messages` on a known plan prints the Messages
\* table exactly once and nothing else.
C6_Original ==
    (args.cmd = "info" /\ args.messages_only /\ ~UnknownName /\ Finished) =>
        PrintedTitles = <<"Messages">>

\* C6 as amended: `plan info --messages` on a known plan whose configuration
\* has the keys title, slug, tier and checks completes having printed the
\* Messages table exactly once and nothing else; no invocation with
\* --messages ever prints another table.
C6_MessagesOnly ==
    (args.cmd = "info" /\ args.messages_only) =>
        /\ \A i \in 1..Len(output) :
              output[i].kind = "table" /\ output[i].title = "Messages"
        /\ Len(output) <= 1
        /\ (Finished /\ ~UnknownName /\ HasRequiredKeys(GivenPlans[args.plan_name])) =>
              pc = "done" /\ PrintedTitles = <<"Messages">>

C6_Witness ==
    /\ args.cmd = "info" /\ args.messages_only /\ pc = "done" /\ ~UnknownName
    /\ Len(output) = 1 /\ output[1].title = "Messages"
    /\ Cardinality(DOMAIN GivenPlans) = 2

\* number of checks of the steps before step i
RECURSIVE ChecksBefore(_, _)
ChecksBefore(frozen, i) ==
    IF i = 1 THEN 0
    ELSE ChecksBefore(frozen, i - 1) + Len(frozen[i - 1].task_config.checks)

\* C7: the Steps rows are (step_num, name, is_required) of the resolver's
\* steps in returned order, one per step; the Step Preflights rows are the
\* steps' checks, step by step and within a step in definition order, one
\* (action, message, when) row per check.
C7_FlattenOrder ==
    (args.cmd = "info" /\ ~args.messages_only /\ pc = "done") =>
        LET stepRows == Tail(output[5].data)
            checkRows == Tail(output[4].data)
        IN  /\ output[5].title = "Steps" /\ output[4].title = "Step Preflights"
            /\ Len(stepRows) = Len(steps)
            /\ \A i \in 1..Len(steps) :
                  stepRows[i] = <<steps[i].step_num, steps[i].name, steps[i].is_required>>
            /\ Len(checkRows) = ChecksBefore(steps, Len(steps) + 1)
            /\ \A i \in 1..Len(steps) :
                  \A j \in 1..Len(steps[i].task_config.checks) :
                     LET check == steps[i].task_config.checks[j]
                     IN  checkRows[ChecksBefore(steps, i) + j] =
                            <<Get(check, "action", ""), Get(check, "message", ""),
                              Get(check, "when", "")>>

\* two different steps, the first with two different checks
C7_Witness ==
    /\ args.cmd = "info" /\ ~args.messages_only /\ pc = "done"
    /\ Len(steps) = 2 /\ steps[1].step_num # steps[2].step_num
    /\ Len(steps[1].task_config.checks) = 2
    /\ steps[1].task_config.checks[1] # steps[1].task_config.checks[2]
    /\ Len(steps[2].task_config.checks) = 1
    /\ steps[2].task_config.checks[1] # steps[1].task_config.checks[2]

\* C10: when the resolver call fails, its failure is what the invocation
\* ends with and no table has been printed; without --messages a table is
\* printed only after the resolver call has returned.
C10_AllOrNothing ==
    (args.cmd = "info" /\ ~args.messages_only) =>
        /\ pc = "resolving" => output = <<>>
        /\ error.type = "ResolverError" =>
              /\ pc = "failed" /\ output = <<>>
              /\ error = [type |-> "ResolverError", msg |-> <<"get_frozen_steps">>]
        /\ output # <<>> =>
              pc = "done" /\ resolver_calls = 1 /\ error = NoError

C10_Witness ==
    /\ args.cmd = "info" /\ ~args.messages_only /\ pc = "failed"
    /\ error.type = "ResolverError" /\ resolver_calls = 1 /\ output = <<>>

=============================================================================
